---- MODULE Spec2Model ----
(***************************************************************************)
(* Model of fluke/_ingesters.py: the Ingester base class and its four      *)
(* variants LocalIngester, RemoteIngester, AWSS3Ingester, AzureIngester.   *)
(*                                                                         *)
(* One ingester object is modelled.  Its variant is fixed at construction. *)
(* Every handler call (download_file, upload_file, path_exists, mkdir) is  *)
(* one step, answered by the environment: it returns or it raises.  The    *)
(* calls of the running (or last) extract/load are kept in `calls`.        *)
(* Paths are sequences of one-character strings, byte streams are a byte   *)
(* sequence plus a position.                                               *)
(***************************************************************************)
EXTENDS Integers, Sequences, FiniteSets, TLC

VARIABLES
    variant,            \* which subclass was instantiated
    src,                \* Ingester.__src
    snk,                \* Ingester.__snk
    metadata,           \* Ingester.__metadata
    op,                 \* the method called last (or still running)
    pc,                 \* position of the running call / how the last one ended
    args,               \* the arguments of the running (or last) extract/load
    err,                \* the exception that reached the caller, if any
    pre,                \* source, sink and metadata when the call was made
    sep,                \* RemoteIngester.load: sep
    parent_dir,         \* RemoteIngester.load: parent_dir
    non_existing_dirs,  \* RemoteIngester.load: non_existing_dirs
    todo,               \* RemoteIngester.load: directories the for loop has yet to visit
    calls,              \* handler calls made by the running (or last) extract/load
    twin_calls,         \* the handler calls of the same load given the metadata TwinMeta
    streams,            \* LocalIngester: the file objects of the caller
    twin_streams,       \* the file objects after the same load given the metadata TwinMeta
    hist                \* LocalIngester: the last load, and the extract that followed it

vars == <<variant, src, snk, metadata, op, pc, args, err, pre, sep, parent_dir,
          non_existing_dirs, todo, calls, twin_calls, streams, twin_streams, hist>>

(***************************************************************************)
(* Bounds                                                                  *)
(***************************************************************************)
\* longest sink path enumerated (besides ExamplePath)
MaxPathLen == 4
\* longest content of a local stream
MaxData == 1

(***************************************************************************)
(* Values                                                                  *)
(***************************************************************************)
\* Python's None, and a present value
NoneVal == [isNone |-> TRUE]
Some(v) == [isNone |-> FALSE, val |-> v]

Slash == "/"
Backslash == "\\"
\* the characters of the enumerated paths
Chars == {Slash, "a"}

RECURSIVE SeqsUpTo(_, _)
SeqsUpTo(S, n) ==
    IF n = 0 THEN {<<>>}
    ELSE LET shorter == SeqsUpTo(S, n - 1)
         IN  shorter \cup {Append(s, x) : s \in {t \in shorter : Len(t) = n - 1}, x \in S}

\* "/a/b/c/file.txt"
ExamplePath == <<"/", "a", "/", "b", "/", "c", "/", "f", "i", "l", "e", ".", "t", "x", "t">>
\* paths with backslashes: a\a\a, \a\, and a\a/a, which has both separators
BackslashPaths == { <<"a", Backslash, "a", Backslash, "a">>,
                    <<Backslash, "a", Backslash>>,
                    <<"a", Backslash, "a", Slash, "a">> }
\* the sinks of a RemoteIngester
Paths == SeqsUpTo(Chars, MaxPathLen) \cup BackslashPaths \cup {ExamplePath}

\* remote paths, keys and blob names used as source (opaque to the ingester)
SourceRefs == {<<"/", "a">>}
\* keys and blob names used as sink by the object-store and blob-store variants
KeyRefs == {<<"a">>, <<"a", "/", "a">>}

Keys == {"a", "b"}
Vals == {"1"}
\* dict[str, str]: every mapping from some of the keys to values
Metas == UNION {[D -> Vals] : D \in SUBSET Keys}

\* buffers handed to the non-local variants (opaque to the ingester)
Buffers == {"buf1", "buf2"}
\* exceptions a handler call may raise
Errors == {"E1", "E2"}

Bytes == {0, 1}
StreamIds == {"s1", "s2"}
\* the file objects the caller sets as source or sink of a LocalIngester
LocalFiles == {"s1"}
StreamStates == {st \in [data : SeqsUpTo(Bytes, MaxData), pos : 0..MaxData] :
                    st.pos <= Len(st.data)}

Variants == {"local", "remote", "s3", "azure"}

(***************************************************************************)
(* String operations used by RemoteIngester.load                           *)
(***************************************************************************)
\* c in s
Contains(s, c) == \E i \in 1..Len(s) : s[i] = c

\* s.rstrip(c): s up to its last character that is not c
rstrip(s, c) ==
    LET keep == {i \in 1..Len(s) : s[i] # c}
    IN  IF keep = {} THEN <<>>
        ELSE SubSeq(s, 1, CHOOSE i \in keep : \A j \in keep : j <= i)

\* s.split(c): the pieces of s between the occurrences of c, empty ones too
split(s, c) ==
    LET at == {i \in 1..Len(s) : s[i] = c}
        \* where the k-th occurrence of c is; 0 before the first, Len(s) + 1 after the last
        cut(k) == IF k = 0 THEN 0
                  ELSE IF k > Cardinality(at) THEN Len(s) + 1
                  ELSE CHOOSE i \in at : Cardinality({j \in at : j < i}) = k - 1
    IN  [k \in 1..(Cardinality(at) + 1) |-> SubSeq(s, cut(k - 1) + 1, cut(k) - 1)]

\* c.join(parts): the first k parts with c between them
RECURSIVE joinFirst(_, _, _)
joinFirst(parts, c, k) ==
    IF k = 0 THEN <<>>
    ELSE IF k = 1 THEN parts[1]
    ELSE joinFirst(parts, c, k - 1) \o <<c>> \o parts[k]

\* c.join(parts)
join(parts, c) == joinFirst(parts, c, Len(parts))

\* parts[:-1]
ButLast(parts) == SubSeq(parts, 1, Len(parts) - 1)

\* mutant: the collected list is walked as it is, leaf first
reversedNot(s) == s

\* reversed(s)
reversed(s) == [i \in 1..Len(s) |-> s[Len(s) + 1 - i]]

\* _infer_sep(file_path): the separators it may return for a path
infer_sep(file_path) ==
    IF Contains(file_path, Slash) /\ ~Contains(file_path, Backslash) THEN {Slash}
    ELSE IF Contains(file_path, Backslash) /\ ~Contains(file_path, Slash) THEN {Backslash}
    ELSE {Slash, Backslash}

\* mutant: the "sep in file_path" test is left out
get_parent_dirNoCheck(file_path, s) ==
    CHOOSE parent \in
        { Some(join(ButLast(pieces), s) \o <<s>>) :
             pieces \in {split(rstrip(file_path, s), s)} } : TRUE

\* get_parent_dir of RemoteIngester.load, with the sep it closes over
\* (stripped and the pieces are bound by \in, which evaluates each of them once)
get_parent_dir(file_path, s) ==
    CHOOSE parent \in
        { IF Contains(stripped, s)
          THEN CHOOSE p \in {Some(join(ButLast(pieces), s) \o <<s>>) :
                                 pieces \in {split(stripped, s)}} : TRUE
          ELSE NoneVal : stripped \in {rstrip(file_path, s)} } : TRUE

(***************************************************************************)
(* Handler calls and their outcomes                                        *)
(***************************************************************************)
Returned(v) == [raised |-> FALSE, val |-> v]
Raised(e) == [raised |-> TRUE, err |-> e]

\* what handler.path_exists may do: answer, or raise
PathExistsOutcomes == {Returned(TRUE), Returned(FALSE)} \cup {Raised(e) : e \in Errors}
\* what handler.mkdir and handler.upload_file may do: return None, or raise
UnitOutcomes == {Returned(NoneVal)} \cup {Raised(e) : e \in Errors}
\* what handler.download_file may do: return None or a mapping, or raise
DownloadOutcomes ==
    {Returned(NoneVal)} \cup {Returned(Some(m)) : m \in Metas} \cup {Raised(e) : e \in Errors}

MetaArgs == {NoneVal} \cup {Some(m) : m \in Metas}

\* the metadata values the caller hands to set_metadata
SetterMetas == {NoneVal, Some([k \in {"a"} |-> "1"])}
\* the metadata of the load that every load is compared with: the empty mapping
TwinMeta == Some([k \in {} |-> "1"])

NoArgs == [buf |-> "", md |-> NoneVal, flag |-> FALSE]
NoPre == [src |-> NoneVal, snk |-> NoneVal, metadata |-> NoneVal]
Snapshot == [src |-> src, snk |-> snk, metadata |-> metadata]
Quiescent == {"idle", "returned", "raised"}

\* the streams of the variants that have none
NoStreams == [s \in StreamIds |-> [data |-> <<>>, pos |-> 0]]

(***************************************************************************)
(* Ingester: construction, accessors and mutators                          *)
(***************************************************************************)
Init ==
    /\ variant \in Variants
    /\ src = NoneVal
    /\ snk = NoneVal
    /\ metadata = NoneVal
    /\ op = "__init__"
    /\ pc = "idle"
    /\ args = NoArgs
    /\ err = ""
    /\ pre = NoPre
    /\ sep = ""
    /\ parent_dir = NoneVal
    /\ non_existing_dirs = <<>>
    /\ todo = <<>>
    /\ calls = <<>>
    /\ twin_calls = <<>>
    /\ streams \in IF variant = "local" THEN [StreamIds -> StreamStates] ELSE {NoStreams}
    /\ twin_streams = streams
    /\ hist = NoneVal

get_source == src
get_sink == snk
get_metadata == metadata

\* the locals and the call log of a call that is over are dropped
ForgetCall ==
    /\ pc' = "idle"
    /\ args' = NoArgs
    /\ err' = ""
    /\ pre' = NoPre
    /\ sep' = ""
    /\ parent_dir' = NoneVal
    /\ non_existing_dirs' = <<>>
    /\ todo' = <<>>
    /\ calls' = <<>>
    /\ twin_calls' = <<>>
    /\ twin_streams' = streams

SourcesOf(v) == IF v = "local" THEN LocalFiles ELSE SourceRefs
SinksOf(v) == IF v = "local" THEN LocalFiles ELSE IF v = "remote" THEN Paths ELSE KeyRefs

\* mutant: the new mapping is merged into the one held
set_metadataMerge(old, m) ==
    IF old.isNone \/ m.isNone THEN m
    ELSE Some([k \in (DOMAIN old.val) \cup (DOMAIN m.val) |->
                 IF k \in DOMAIN m.val THEN m.val[k] ELSE old.val[k]])

\* self.__src = src, self.__snk = snk, self.__metadata = metadata: the field's new value
set_source(old, ref) == ref
set_sink(old, ref) == ref
set_metadata(old, m) == m

\* the caller calls a mutator between two extract/load calls
CallSetSource(ref) ==
    /\ pc \in Quiescent
    /\ src' = set_source(src, ref)
    /\ op' = "set_source"
    /\ ForgetCall
    /\ UNCHANGED <<variant, snk, metadata, streams, hist>>

CallSetSink(ref) ==
    /\ pc \in Quiescent
    /\ snk' = set_sink(snk, ref)
    /\ op' = "set_sink"
    /\ ForgetCall
    /\ UNCHANGED <<variant, src, metadata, streams, hist>>

CallSetMetadata(m) ==
    /\ pc \in Quiescent
    /\ metadata' = set_metadata(metadata, m)
    /\ op' = "set_metadata"
    /\ ForgetCall
    /\ UNCHANGED <<variant, src, snk, streams, hist>>

\* a call of extract or load starts: its arguments and the state it found
Enter(name, a) ==
    /\ pc \in Quiescent
    /\ op' = name
    /\ args' = a
    /\ pre' = Snapshot

(***************************************************************************)
(* RemoteIngester                                                          *)
(***************************************************************************)
PathExistsCall(path, ret) == [op |-> "path_exists", path |-> path, ret |-> ret]
MkdirCall(path, ret) == [op |-> "mkdir", path |-> path, ret |-> ret]
UploadCall(file_path, buffer, md, ret) ==
    [op |-> "upload_file", file_path |-> file_path, buffer |-> buffer,
     metadata |-> md, ret |-> ret]
DownloadCall(file_path, buffer, include_metadata, ret) ==
    [op |-> "download_file", file_path |-> file_path, buffer |-> buffer,
     include_metadata |-> include_metadata, ret |-> ret]

\* the locals of RemoteIngester.load, which no other method has
NoWalk ==
    /\ sep' = ""
    /\ parent_dir' = NoneVal
    /\ non_existing_dirs' = <<>>
    /\ todo' = <<>>

\* how a call ends after a handler call that was its last
EndWith(ret) ==
    /\ pc' = IF ret.raised THEN "raised" ELSE "returned"
    /\ err' = IF ret.raised THEN ret.err ELSE ""

\* mutant: the mapping download_file returns is stored, as the object-store variant does
RemoteExtractStoring(snk_buf, include_metadata) ==
    /\ variant = "remote"
    /\ Enter("extract", [NoArgs EXCEPT !.buf = snk_buf, !.flag = include_metadata])
    /\ \E ret \in DownloadOutcomes :
        /\ calls' = <<DownloadCall(get_source, snk_buf, include_metadata, ret)>>
        /\ EndWith(ret)
        /\ metadata' = IF ~ret.raised /\ ~ret.val.isNone THEN ret.val ELSE metadata
    /\ twin_calls' = <<>>
    /\ NoWalk
    /\ UNCHANGED <<variant, src, snk, streams, twin_streams, hist>>

\* RemoteIngester.extract: one download_file call, its result dropped
RemoteExtract(snk_buf, include_metadata) ==
    /\ variant = "remote"
    /\ Enter("extract", [NoArgs EXCEPT !.buf = snk_buf, !.flag = include_metadata])
    /\ \E ret \in DownloadOutcomes :
        /\ calls' = <<DownloadCall(get_source, snk_buf, include_metadata, ret)>>
        /\ EndWith(ret)
    /\ twin_calls' = <<>>
    /\ NoWalk
    /\ UNCHANGED <<variant, src, snk, metadata, streams, twin_streams, hist>>

\* RemoteIngester.load up to its first handler call: file_path and sep are set.
\* A sink that was never set is None: inferring its separator raises.
RemoteLoadEnter(src_buf, md) ==
    /\ variant = "remote"
    /\ Enter("load", [NoArgs EXCEPT !.buf = src_buf, !.md = md])
    /\ calls' = <<>>
    /\ twin_calls' = <<>>
    /\ non_existing_dirs' = <<>>
    /\ todo' = <<>>
    /\ IF get_sink.isNone
       THEN /\ pc' = "raised"
            /\ err' = "TypeError"
            /\ sep' = ""
            /\ parent_dir' = NoneVal
       ELSE /\ pc' = "walk"
            /\ err' = ""
            /\ sep' \in infer_sep(get_sink.val)
            /\ parent_dir' = get_sink
    /\ UNCHANGED <<variant, src, snk, metadata, streams, twin_streams, hist>>

\* mutant: the walk stops at the first ancestor that exists
RemoteLoadPathExistsEarlyStop ==
    /\ pc = "walk"
    /\ LET parent == get_parent_dir(parent_dir.val, sep)
       IN  /\ ~parent.isNone
           /\ parent_dir' = parent
           /\ \E ret \in PathExistsOutcomes :
                /\ calls' = Append(calls, PathExistsCall(parent.val, ret))
                /\ twin_calls' = Append(twin_calls, PathExistsCall(parent.val, ret))
                /\ IF ret.raised
                   THEN /\ pc' = "raised"
                        /\ err' = ret.err
                        /\ UNCHANGED <<non_existing_dirs, todo>>
                   ELSE IF ret.val
                   THEN /\ pc' = "mkdir"
                        /\ todo' = reversed(non_existing_dirs)
                        /\ UNCHANGED <<err, non_existing_dirs>>
                   ELSE /\ UNCHANGED <<pc, err, todo>>
                        /\ non_existing_dirs' = Append(non_existing_dirs, parent.val)
    /\ UNCHANGED <<variant, src, snk, metadata, op, args, pre, sep,
                   streams, twin_streams, hist>>

\* one turn of the while loop: parent_dir := get_parent_dir(parent_dir) is a
\* directory, and the handler is asked whether it exists
RemoteLoadPathExists ==
    /\ pc = "walk"
    /\ LET parent == get_parent_dir(parent_dir.val, sep)
       IN  /\ ~parent.isNone
           /\ parent_dir' = parent
           /\ \E ret \in PathExistsOutcomes :
                /\ calls' = Append(calls, PathExistsCall(parent.val, ret))
                /\ twin_calls' = Append(twin_calls, PathExistsCall(parent.val, ret))
                /\ IF ret.raised
                   THEN /\ pc' = "raised"
                        /\ err' = ret.err
                        /\ UNCHANGED non_existing_dirs
                   ELSE /\ UNCHANGED <<pc, err>>
                        /\ non_existing_dirs' =
                              IF ~ret.val THEN Append(non_existing_dirs, parent.val)
                              ELSE non_existing_dirs
    /\ UNCHANGED <<variant, src, snk, metadata, op, args, pre, sep, todo,
                   streams, twin_streams, hist>>

\* the while loop ends: parent_dir := get_parent_dir(parent_dir) is None
RemoteLoadWalkEnd ==
    /\ pc = "walk"
    /\ get_parent_dir(parent_dir.val, sep).isNone
    /\ parent_dir' = NoneVal
    /\ todo' = reversed(non_existing_dirs)
    /\ pc' = "mkdir"
    /\ UNCHANGED <<variant, src, snk, metadata, op, args, err, pre, sep, non_existing_dirs,
                   calls, twin_calls, streams, twin_streams, hist>>

\* mutant: a mkdir that fails is passed over and the loop goes on
RemoteLoadMkdirSwallow ==
    /\ pc = "mkdir"
    /\ todo # <<>>
    /\ \E ret \in UnitOutcomes :
        /\ calls' = Append(calls, MkdirCall(Head(todo), ret))
        /\ twin_calls' = Append(twin_calls, MkdirCall(Head(todo), ret))
        /\ todo' = Tail(todo)
        /\ UNCHANGED <<pc, err>>
    /\ UNCHANGED <<variant, src, snk, metadata, op, args, pre, sep, parent_dir,
                   non_existing_dirs, streams, twin_streams, hist>>

\* one turn of the for loop: the next directory is created
RemoteLoadMkdir ==
    /\ pc = "mkdir"
    /\ todo # <<>>
    /\ \E ret \in UnitOutcomes :
        /\ calls' = Append(calls, MkdirCall(Head(todo), ret))
        /\ twin_calls' = Append(twin_calls, MkdirCall(Head(todo), ret))
        /\ IF ret.raised
           THEN /\ pc' = "raised"
                /\ err' = ret.err
                /\ UNCHANGED todo
           ELSE /\ todo' = Tail(todo)
                /\ UNCHANGED <<pc, err>>
    /\ UNCHANGED <<variant, src, snk, metadata, op, args, pre, sep, parent_dir,
                   non_existing_dirs, streams, twin_streams, hist>>

\* mutant: the metadata, of no use to this variant, is not passed on
RemoteUploadRequestNoMeta(file_path, src_buf, md, ret) ==
    UploadCall(file_path, src_buf, NoneVal, ret)

\* the request load sends to handler.upload_file
RemoteUploadRequest(file_path, src_buf, md, ret) == UploadCall(file_path, src_buf, md, ret)

\* the for loop is over: the file is uploaded
RemoteLoadUpload ==
    /\ pc = "mkdir"
    /\ todo = <<>>
    /\ \E ret \in UnitOutcomes :
        /\ calls' = Append(calls, RemoteUploadRequest(pre.snk, args.buf, args.md, ret))
        /\ twin_calls' =
              Append(twin_calls, RemoteUploadRequest(pre.snk, args.buf, TwinMeta, ret))
        /\ EndWith(ret)
    /\ UNCHANGED <<variant, src, snk, metadata, op, args, pre, sep, parent_dir,
                   non_existing_dirs, todo, streams, twin_streams, hist>>

(***************************************************************************)
(* AWSS3Ingester and AzureIngester                                         *)
(***************************************************************************)
\* mutant: set_metadata is called with whatever download_file returned, None too
StoreExtractAlways(snk_buf, include_metadata) ==
    /\ Enter("extract", [NoArgs EXCEPT !.buf = snk_buf, !.flag = include_metadata])
    /\ \E ret \in DownloadOutcomes :
        /\ calls' = <<DownloadCall(get_source, snk_buf, include_metadata, ret)>>
        /\ EndWith(ret)
        /\ metadata' = IF ~ret.raised THEN set_metadata(metadata, ret.val) ELSE metadata
    /\ twin_calls' = <<>>
    /\ NoWalk
    /\ UNCHANGED <<variant, src, snk, streams, twin_streams, hist>>

\* extract of both: download_file, and set_metadata if it returned a mapping
StoreExtract(snk_buf, include_metadata) ==
    /\ Enter("extract", [NoArgs EXCEPT !.buf = snk_buf, !.flag = include_metadata])
    /\ \E ret \in DownloadOutcomes :
        /\ calls' = <<DownloadCall(get_source, snk_buf, include_metadata, ret)>>
        /\ EndWith(ret)
        /\ metadata' = IF ~ret.raised /\ ~ret.val.isNone
                       THEN set_metadata(metadata, ret.val)
                       ELSE metadata
    /\ twin_calls' = <<>>
    /\ NoWalk
    /\ UNCHANGED <<variant, src, snk, streams, twin_streams, hist>>

\* load of both: upload_file with the sink, the buffer and the metadata
StoreLoad(src_buf, md) ==
    /\ Enter("load", [NoArgs EXCEPT !.buf = src_buf, !.md = md])
    /\ \E ret \in UnitOutcomes :
        /\ calls' = <<UploadCall(get_sink, src_buf, md, ret)>>
        /\ twin_calls' = <<UploadCall(get_sink, src_buf, TwinMeta, ret)>>
        /\ EndWith(ret)
    /\ NoWalk
    /\ UNCHANGED <<variant, src, snk, metadata, streams, twin_streams, hist>>

AWSS3Extract(snk_buf, include_metadata) ==
    variant = "s3" /\ StoreExtract(snk_buf, include_metadata)

AWSS3Load(src_buf, md) ==
    variant = "s3" /\ StoreLoad(src_buf, md)

AzureExtract(snk_buf, include_metadata) ==
    variant = "azure" /\ StoreExtract(snk_buf, include_metadata)

AzureLoad(src_buf, md) ==
    variant = "azure" /\ StoreLoad(src_buf, md)

(***************************************************************************)
(* LocalIngester                                                           *)
(***************************************************************************)
\* f.read(): the bytes from the position to the end
ReadAll(f) == SubSeq(f.data, f.pos + 1, Len(f.data))

\* f.write(b): b overwrites from the position on and extends the content
Write(f, b) ==
    [data |-> SubSeq(f.data, 1, f.pos) \o b \o SubSeq(f.data, f.pos + Len(b) + 1, Len(f.data)),
     pos |-> f.pos + Len(b)]

\* mutant: fsrc is rewound before it is read
copyfileobjRewind(st, fsrc, fdst) ==
    LET buf == st[fsrc].data
        read == [st EXCEPT ![fsrc].pos = Len(st[fsrc].data)]
    IN  IF buf = <<>> THEN read ELSE [read EXCEPT ![fdst] = Write(read[fdst], buf)]

\* shutil.copyfileobj(fsrc, fdst) on the file objects st: fsrc is read from its
\* position to its end, and what was read, if anything, is written to fdst
\* (the content fits one chunk of the copy; fsrc and fdst may be one file object)
copyfileobj(st, fsrc, fdst) ==
    LET buf == ReadAll(st[fsrc])
        read == [st EXCEPT ![fsrc].pos = Len(st[fsrc].data)]
    IN  IF buf = <<>> THEN read ELSE [read EXCEPT ![fdst] = Write(read[fdst], buf)]

\* the bytes a copy from fsrc put into fdst, read off the file objects before and after
Landed(before, after, fsrc, fdst) ==
    LET from == IF fsrc = fdst THEN Len(before[fdst].data) ELSE before[fdst].pos
    IN  SubSeq(after[fdst].data, from + 1, after[fdst].pos)

\* mutant: nothing is copied unless a metadata mapping with entries is given
LocalLoadResultIfMeta(st, sink, src_buf, md) ==
    IF md.isNone \/ DOMAIN md.val = {} THEN st ELSE copyfileobj(st, src_buf, sink)

\* what LocalIngester.load(src, metadata) leaves in the file objects
LocalLoadResult(st, sink, src_buf, md) == copyfileobj(st, src_buf, sink)

\* LocalIngester.extract: copyfileobj(fsrc=self.get_source(), fdst=snk)
LocalExtract(snk_buf, include_metadata) ==
    /\ variant = "local"
    /\ Enter("extract", [NoArgs EXCEPT !.buf = snk_buf, !.flag = include_metadata])
    /\ IF get_source.isNone
       THEN /\ pc' = "raised"
            /\ err' = "AttributeError"
            /\ UNCHANGED <<streams, hist>>
       ELSE LET after == copyfileobj(streams, get_source.val, snk_buf)
            IN  /\ \A s \in StreamIds : Len(after[s].data) <= MaxData
                /\ streams' = after
                /\ hist' = IF ~hist.isNone /\ hist.val.stage = "loaded"
                                 /\ hist.val.stream = get_source.val
                            THEN Some([hist.val EXCEPT
                                        !.stage = "extracted",
                                        !.into = snk_buf,
                                        !.read = Landed(streams, after, get_source.val, snk_buf)])
                            ELSE NoneVal
                /\ pc' = "returned"
                /\ err' = ""
    /\ twin_streams' = streams'
    /\ calls' = <<>>
    /\ twin_calls' = <<>>
    /\ NoWalk
    /\ UNCHANGED <<variant, src, snk, metadata>>

\* LocalIngester.load: copyfileobj(fsrc=src, fdst=self.get_sink())
LocalLoad(src_buf, md) ==
    /\ variant = "local"
    /\ Enter("load", [NoArgs EXCEPT !.buf = src_buf, !.md = md])
    /\ IF get_sink.isNone
       THEN /\ pc' = "raised"
            /\ err' = "AttributeError"
            /\ UNCHANGED <<streams, twin_streams, hist>>
       ELSE LET after == LocalLoadResult(streams, get_sink.val, src_buf, md)
            IN  /\ \A s \in StreamIds : Len(after[s].data) <= MaxData
                /\ streams' = after
                /\ twin_streams' = LocalLoadResult(streams, get_sink.val, src_buf, TwinMeta)
                /\ hist' = Some([stage |-> "loaded", stream |-> get_sink.val,
                                  written |-> Landed(streams, after, src_buf, get_sink.val),
                                  rest |-> SubSeq(after[get_sink.val].data,
                                                  after[get_sink.val].pos + 1,
                                                  Len(after[get_sink.val].data)),
                                  into |-> "", read |-> <<>>])
                /\ pc' = "returned"
                /\ err' = ""
    /\ calls' = <<>>
    /\ twin_calls' = <<>>
    /\ NoWalk
    /\ UNCHANGED <<variant, src, snk, metadata>>

(***************************************************************************)
(* Specifications                                                          *)
(***************************************************************************)
NextLocal ==
    \/ \E ref \in SourcesOf(variant) : CallSetSource(Some(ref))
    \/ \E ref \in SinksOf(variant) : CallSetSink(Some(ref))
    \/ \E m \in SetterMetas : CallSetMetadata(m)
    \/ \E b \in StreamIds, f \in BOOLEAN : LocalExtract(b, f)
    \/ \E b \in StreamIds, md \in MetaArgs : LocalLoad(b, md)

NextRemote ==
    \/ \E ref \in SourcesOf(variant) : CallSetSource(Some(ref))
    \/ \E ref \in SinksOf(variant) : CallSetSink(Some(ref))
    \/ \E m \in SetterMetas : CallSetMetadata(m)
    \/ \E b \in Buffers, f \in BOOLEAN : RemoteExtract(b, f)
    \/ \E b \in Buffers, md \in MetaArgs : RemoteLoadEnter(b, md)
    \/ RemoteLoadPathExists
    \/ RemoteLoadWalkEnd
    \/ RemoteLoadMkdir
    \/ RemoteLoadUpload

NextStore ==
    \/ \E ref \in SourcesOf(variant) : CallSetSource(Some(ref))
    \/ \E ref \in SinksOf(variant) : CallSetSink(Some(ref))
    \/ \E m \in SetterMetas : CallSetMetadata(m)
    \/ \E b \in Buffers, f \in BOOLEAN : AWSS3Extract(b, f)
    \/ \E b \in Buffers, md \in MetaArgs : AWSS3Load(b, md)
    \/ \E b \in Buffers, f \in BOOLEAN : AzureExtract(b, f)
    \/ \E b \in Buffers, md \in MetaArgs : AzureLoad(b, md)

Next ==
    \/ \E ref \in SourcesOf(variant) : CallSetSource(Some(ref))
    \/ \E ref \in SinksOf(variant) : CallSetSink(Some(ref))
    \/ \E m \in SetterMetas : CallSetMetadata(m)
    \/ \E b \in StreamIds, f \in BOOLEAN : LocalExtract(b, f)
    \/ \E b \in StreamIds, md \in MetaArgs : LocalLoad(b, md)
    \/ \E b \in Buffers, f \in BOOLEAN : RemoteExtract(b, f)
    \/ \E b \in Buffers, md \in MetaArgs : RemoteLoadEnter(b, md)
    \/ RemoteLoadPathExists
    \/ RemoteLoadWalkEnd
    \/ RemoteLoadMkdir
    \/ RemoteLoadUpload
    \/ \E b \in Buffers, f \in BOOLEAN : AWSS3Extract(b, f)
    \/ \E b \in Buffers, md \in MetaArgs : AWSS3Load(b, md)
    \/ \E b \in Buffers, f \in BOOLEAN : AzureExtract(b, f)
    \/ \E b \in Buffers, md \in MetaArgs : AzureLoad(b, md)

Spec == Init /\ [][Next]_vars
\* one variant at a time
InitLocal == Init /\ variant = "local"
InitRemote == Init /\ variant = "remote"
InitStore == Init /\ variant \in {"s3", "azure"}
SpecLocal == InitLocal /\ [][NextLocal]_vars
SpecRemote == InitRemote /\ [][NextRemote]_vars
SpecStore == InitStore /\ [][NextStore]_vars

\* The loads of a RemoteIngester alone.  A load that has begun goes on: the code
\* is sequential and every handler call it blocks on returns or raises.
NextRemoteLoad ==
    \/ \E ref \in SinksOf(variant) : CallSetSink(Some(ref))
    \/ \E b \in Buffers, md \in SetterMetas : RemoteLoadEnter(b, md)
    \/ RemoteLoadPathExists
    \/ RemoteLoadWalkEnd
    \/ RemoteLoadMkdir
    \/ RemoteLoadUpload

SpecRemoteLoadFair ==
    /\ InitRemote
    /\ [][NextRemoteLoad]_vars
    /\ WF_vars(RemoteLoadPathExists \/ RemoteLoadWalkEnd \/ RemoteLoadMkdir \/ RemoteLoadUpload)

(***************************************************************************)
(* Reading the call log                                                    *)
(***************************************************************************)
Last(s) == s[Len(s)]
IsPrefix(p, q) == Len(p) <= Len(q) /\ \A i \in 1..Len(p) : p[i] = q[i]
IsQuery(c) == c.op = "path_exists"
IsMkdir(c) == c.op = "mkdir"
IsUpload(c) == c.op = "upload_file"
Queries == SelectSeq(calls, IsQuery)
Mkdirs == SelectSeq(calls, IsMkdir)
Uploads == SelectSeq(calls, IsUpload)
PathsOf(cs) == [i \in 1..Len(cs) |-> cs[i].path]
AnsweredMissing(c) == IsQuery(c) /\ ~c.ret.raised /\ ~c.ret.val
\* the directories path_exists said do not exist, in the order they were asked about
Missing == PathsOf(SelectSeq(calls, AnsweredMissing))
InRemoteLoad == variant = "remote" /\ op = "load" /\ ~pre.snk.isNone
SinkPath == pre.snk.val

\* The ancestor directories of a path, stated on the path itself: its prefixes that
\* end in a run of separators and are followed by a name, longest first.
LastNameIndex(path, s) ==
    IF \A i \in 1..Len(path) : path[i] = s THEN 0
    ELSE CHOOSE i \in 1..Len(path) : path[i] # s /\ \A j \in (i + 1)..Len(path) : path[j] = s
AncestorEnds(path, s) ==
    {i \in 1..(LastNameIndex(path, s) - 1) : path[i] = s /\ path[i + 1] # s}
RECURSIVE Descending(_)
Descending(S) ==
    IF S = {} THEN <<>>
    ELSE LET m == CHOOSE x \in S : \A y \in S : y <= x
         IN  <<m>> \o Descending(S \ {m})
Ancestors(path, s) ==
    LET ends == Descending(AncestorEnds(path, s))
    IN  [i \in 1..Len(ends) |-> SubSeq(path, 1, ends[i])]

(***************************************************************************)
(* C1                                                                      *)
(***************************************************************************)
\* C1: in RemoteIngester.load the mkdir calls are the directories path_exists
\* answered false for, each once, shorter ancestor before longer: at every moment
\* they are the first of these in root-to-leaf order, and once the for loop is
\* over (upload_file is called) they are all of them, so N missing ancestors give
\* N calls and none missing gives none.
C1_MkdirExactlyMissing ==
    InRemoteLoad =>
        LET made == PathsOf(Mkdirs)
        IN  /\ IsPrefix(made, reversed(Missing))
            /\ Uploads # <<>> => made = reversed(Missing)
            /\ \A i \in 1..Len(made) : \A j \in (i + 1)..Len(made) :
                  Len(made[i]) < Len(made[j]) /\ IsPrefix(made[i], made[j])
            /\ \A i \in 1..Len(made) :
                  \E k \in 1..Len(Ancestors(SinkPath, sep)) :
                      made[i] = Ancestors(SinkPath, sep)[k]
            /\ (pc = "returned" /\ Missing = <<>>) => Mkdirs = <<>>

\* a load that returned after creating two directories below an existing one
C1_Witness ==
    /\ InRemoteLoad
    /\ pc = "returned"
    /\ Len(Mkdirs) >= 2
    /\ Len(Queries) > Len(Mkdirs)

(***************************************************************************)
(* C2                                                                      *)
(***************************************************************************)
PhaseOf(c) == IF IsQuery(c) THEN 1 ELSE IF IsMkdir(c) THEN 2 ELSE 3
NotQuery(c) == ~IsQuery(c)
DirA == <<"/", "a", "/">>
DirAB == <<"/", "a", "/", "b", "/">>
DirABC == <<"/", "a", "/", "b", "/", "c", "/">>
\* the sink is /a/b/c/file.txt, / and /a/ exist, /a/b/ and /a/b/c/ do not
ExampleScenario ==
    /\ InRemoteLoad
    /\ pc = "returned"
    /\ SinkPath = ExamplePath
    /\ \A i \in 1..Len(Queries) :
          Queries[i].ret.val = (Queries[i].path \in {<<"/">>, DirA})

\* C2: the handler calls of RemoteIngester.load come in three phases that never
\* interleave, path_exists, then mkdir, then upload_file; a load that returns has
\* called upload_file exactly once, last, with the sink, the caller's buffer and
\* the caller's metadata; in the example scenario the calls after the queries are
\* mkdir("/a/b/"), mkdir("/a/b/c/"), upload_file("/a/b/c/file.txt", buffer, metadata).
C2_ThreePhases ==
    InRemoteLoad =>
        /\ \A i \in 1..Len(calls) : \A j \in (i + 1)..Len(calls) :
              PhaseOf(calls[i]) <= PhaseOf(calls[j])
        /\ Len(Uploads) <= 1
        /\ pc = "returned" =>
              /\ Len(Uploads) = 1
              /\ Last(calls) =
                    UploadCall(get_sink, args.buf, args.md, Returned(NoneVal))
        /\ ExampleScenario =>
              SelectSeq(calls, NotQuery) =
                 << MkdirCall(DirAB, Returned(NoneVal)),
                    MkdirCall(DirABC, Returned(NoneVal)),
                    UploadCall(Some(ExamplePath), args.buf, args.md, Returned(NoneVal)) >>

\* the example scenario, with a metadata mapping that is not empty
C2_Witness ==
    /\ ExampleScenario
    /\ ~args.md.isNone
    /\ DOMAIN args.md.val # {}

(***************************************************************************)
(* C3                                                                      *)
(***************************************************************************)
\* every separator of the path is a trailing one
NoParent(path, s) ==
    \A i \in 1..Len(path) : path[i] = s => \A j \in i..Len(path) : path[j] = s

\* C3: a load whose sink has no parent asks about no directory and creates none,
\* raises nothing of its own (only upload_file can fail), can always go on to
\* upload_file, and returns after exactly one call, upload_file with that sink.
C3_NoParentNoMkdir ==
    (InRemoteLoad /\ NoParent(SinkPath, sep)) =>
        /\ Queries = <<>>
        /\ Mkdirs = <<>>
        /\ pc = "walk" => ENABLED RemoteLoadWalkEnd
        /\ pc = "mkdir" => ENABLED RemoteLoadUpload
        /\ pc = "raised" => (Len(calls) = 1 /\ IsUpload(calls[1]) /\ calls[1].ret.raised)
        /\ pc = "returned" =>
              calls = <<UploadCall(Some(SinkPath), args.buf, args.md, Returned(NoneVal))>>

\* a load that returned for a sink that is a bare name followed by a separator
C3_Witness ==
    /\ InRemoteLoad
    /\ NoParent(SinkPath, sep)
    /\ Contains(SinkPath, sep)
    /\ Len(rstrip(SinkPath, sep)) > 0
    /\ pc = "returned"

(***************************************************************************)
(* C4                                                                      *)
(***************************************************************************)
InStoreExtract == variant \in {"s3", "azure"} /\ op = "extract" /\ pc = "returned"

\* C4: after an extract of the object-store or blob-store variant whose
\* download_file returned None, the metadata held is what it was before the call.
C4_NullKeepsMetadata ==
    (InStoreExtract /\ calls[1].ret.val.isNone) => get_metadata = pre.metadata

\* such an extract, asked to include metadata, by an ingester that held a mapping
C4_Witness ==
    /\ InStoreExtract
    /\ calls[1].ret.val.isNone
    /\ args.flag
    /\ ~pre.metadata.isNone
    /\ DOMAIN pre.metadata.val # {}

(***************************************************************************)
(* C5                                                                      *)
(***************************************************************************)
\* C5: after an extract of the object-store or blob-store variant whose
\* download_file returned the mapping m, get_metadata() is exactly m: the
\* mapping held before is replaced, not merged into.
C5_ExtractOverwrites ==
    (InStoreExtract /\ ~calls[1].ret.val.isNone) =>
        /\ ~get_metadata.isNone
        /\ get_metadata.val = calls[1].ret.val.val
        /\ \A k \in DOMAIN get_metadata.val : k \in DOMAIN calls[1].ret.val.val

\* such an extract by an ingester that held a key the returned mapping lacks
C5_Witness ==
    /\ InStoreExtract
    /\ ~calls[1].ret.val.isNone
    /\ ~pre.metadata.isNone
    /\ \E k \in DOMAIN pre.metadata.val : k \notin DOMAIN calls[1].ret.val.val

(***************************************************************************)
(* C6                                                                      *)
(***************************************************************************)
\* a load, then an extract from the stream that was its sink
RoundTripDone == variant = "local" /\ ~hist.isNone /\ hist.val.stage = "extracted"

\* C6 as claimed: after load(buffer, _) and then extract(buffer2, _) from the
\* stream that was the sink, the bytes read into buffer2 are the bytes written.
C6_RoundTripEqual == RoundTripDone => hist.val.read = hist.val.written

\* C6 as amended: the bytes read into buffer2, a stream other than the sink, are
\* the bytes of the sink that follow the position load left it at; where load
\* left it at its end nothing is read, whatever was written.
C6_ReadsRestOfSink ==
    (RoundTripDone /\ hist.val.into # hist.val.stream) =>
        /\ hist.val.read = hist.val.rest
        /\ hist.val.rest = <<>> => hist.val.read = <<>>

\* a round trip that wrote bytes and read none back
C6_Witness ==
    /\ RoundTripDone
    /\ hist.val.into # hist.val.stream
    /\ hist.val.written # <<>>
    /\ hist.val.read = <<>>

(***************************************************************************)
(* C7                                                                      *)
(***************************************************************************)
LoadOver == op = "load" /\ pc \in {"returned", "raised"}
\* a handler call without the metadata it was given
SansMetadata(c) == IF IsUpload(c) THEN [c EXCEPT !.metadata = NoneVal] ELSE c

C8_FailurePropagates ==
    (variant # "local" /\ op \in {"extract", "load"}) =>
        /\ \A i \in 1..(Len(calls) - 1) : ~calls[i].ret.raised
        /\ (calls # <<>> /\ Last(calls).ret.raised) =>
              /\ pc = "raised"
              /\ err = Last(calls).ret.err
              /\ get_source = pre.src
              /\ get_sink = pre.snk
              /\ get_metadata = pre.metadata
        /\ (pc = "raised" /\ calls # <<>>) => Last(calls).ret.raised

\* a load that created a directory and then saw mkdir fail
C8_Witness ==
    /\ variant = "remote"
    /\ op = "load"
    /\ pc = "raised"
    /\ Len(Mkdirs) >= 2
    /\ Last(calls).op = "mkdir"
    /\ err = "E2"

(***************************************************************************)
(* C9                                                                      *)
(***************************************************************************)
\* C9: no step of an extract or a load changes the source or the sink, and the
\* only such step that changes the metadata is an extract of the object-store
\* or blob-store variant whose download_file returned a mapping, which is then
\* the metadata held.
C9_FieldsFrame ==
    [][op' \in {"extract", "load"} =>
          /\ src' = src
          /\ snk' = snk
          /\ metadata' # metadata =>
                /\ variant \in {"s3", "azure"}
                /\ op' = "extract"
                /\ pc' = "returned"
                /\ ~calls'[1].ret.val.isNone
                /\ metadata' = calls'[1].ret.val]_vars

\* a remote extract that was asked for metadata, got a mapping and holds none
C9_Witness ==
    /\ variant = "remote"
    /\ op = "extract"
    /\ pc = "returned"
    /\ args.flag
    /\ ~calls[1].ret.val.isNone
    /\ DOMAIN calls[1].ret.val.val # {}
    /\ get_metadata.isNone

(***************************************************************************)
(* C10                                                                     *)
(***************************************************************************)
\* what each parent directory was computed from: the sink, then the parent before
ComputedFrom(i) == IF i = 1 THEN SinkPath ELSE Queries[i - 1].path

WalkInv ==
    InRemoteLoad =>
        LET asked == PathsOf(Queries)
        IN  /\ IsPrefix(asked, Ancestors(SinkPath, sep))
            /\ pc \in {"mkdir", "returned"} => asked = Ancestors(SinkPath, sep)
            /\ Len(asked) <= Len(SinkPath)
            /\ \A i \in 1..Len(asked) :
                  /\ Len(asked[i]) < Len(ComputedFrom(i))
                  /\ Last(asked[i]) = sep
                  /\ IsPrefix(asked[i], SinkPath)
                  /\ asked[i] # SinkPath

\* C10: the ancestor walk of RemoteIngester.load ends: each parent is shorter
\* than the path it was computed from, ends with the separator and is a proper
\* prefix of the sink; the ancestors are asked about once each, leaf to root,
\* all of them whether they exist or not, so at most len(sink) times; and a
\* load that has begun its walk reaches upload_file unless a handler call fails.
C10_WalkTerminates ==
    /\ []WalkInv
    /\ (pc = "walk") ~> (pc = "raised" \/ Uploads # <<>>)

\* a load that returned after asking about an ancestor above one that exists
C10_Witness ==
    /\ InRemoteLoad
    /\ pc = "returned"
    /\ Len(Queries) >= 2
    /\ Queries[1].ret.val

====
